---- MODULE Spec2Model ----
(***************************************************************************)
(* Model of the reactive dataflow graph of data_gui/data_node.py:          *)
(* PipelineGraph (a map id -> Node) and Node (inputs, outputs and          *)
(* input_subscriptions), with the subscriptions' completion callbacks      *)
(* that the AsyncIOScheduler delivers later on the event loop.             *)
(***************************************************************************)
EXTENDS Integers, Sequences, FiniteSets, TLC

\* Node ids the host may use.
Ids == {"a", "b", "c"}

\* The classes of node the host constructs, with the node_type each passes
\* to Node.__init__.
NodeKinds ==
    { [class |-> "Node",          node_type |-> "operator"],
      [class |-> "PlotNode",      node_type |-> "discharge"],
      [class |-> "CatchmentNode", node_type |-> "catchment"] }

\* How many calls the host makes on the graph in one run.
MaxCalls == 7

\* The same for the runs in which the event loop is followed to the end.
MaxLoopCalls == 6

\* How many generation tasks one DataSource is made to create, and how many
\* traces are followed on trace_subject.
MaxTasks == 3
MaxTraces == 4

\* How many values a emits on the edge a -> b that is followed, and how
\* many times b subscribes to a.
MaxValues == 4
MaxSubs == 2

VARIABLES
    nodes,   \* PipelineGraph.nodes: registered id -> Node object
    calls,   \* the number of calls the host has made
    probe,   \* the add_edge / remove_edge pair last made, with the value
             \* would_create_cycle had before it
    source,  \* one DataSource: its flags and its generation tasks
    scope,   \* the Picoscope server: its flags, events and loop thread
    flow     \* the values on their way along one edge of the graph

vars == <<nodes, calls, probe, source, scope, flow>>

----------------------------------------------------------------------------
\* Python list helpers

Contains(s, x) == \E i \in 1..Len(s) : s[i] = x

ToSet(s) == { s[i] : i \in 1..Len(s) }

\* list.remove(x): drops the first occurrence of x
ListRemove(s, x) ==
    IF ~Contains(s, x) THEN s
    ELSE LET i == CHOOSE k \in 1..Len(s) :
                      s[k] = x /\ \A j \in 1..(k - 1) : s[j] # x
         IN  SubSeq(s, 1, i - 1) \o SubSeq(s, i + 1, Len(s))

\* "if x not in s: s.append(x)"
\* append without the membership test
AppendAlways(s, x) == Append(s, x)

AppendIfAbsent(s, x) == IF Contains(s, x) THEN s ELSE Append(s, x)

\* dict helpers for input_subscriptions
NoSubscriptions == [x \in {} |-> "live"]

DictSet(d, k, v) == [x \in (DOMAIN d) \cup {k} |-> IF x = k THEN v ELSE d[x]]

DictDel(d, k) == [x \in (DOMAIN d) \ {k} |-> d[x]]

----------------------------------------------------------------------------
\* Node

\* Node.__init__: no edges, no subscriptions, a fresh Subject
NewNode(kind) ==
    [ class               |-> kind.class,
      node_type           |-> kind.node_type,
      inputs              |-> <<>>,
      outputs             |-> <<>>,
      input_subscriptions |-> NoSubscriptions,
      subject             |-> "open" ]

\* subscribe_to_input that only refuses a source node
SubscribeOk_kind_only(ns, t, f) == ns[t].node_type # "catchment"

\* Node.subscribe_to_input and its overrides, on the node registered as t
\* with the node registered as f; TRUE when a subscription is created.
SubscribeOk(ns, t, f) ==
    /\ ns[t].node_type # "catchment"
    /\ f \notin DOMAIN ns[t].input_subscriptions

subscribe_to_input(ns, t, f) ==
    IF SubscribeOk(ns, t, f)
    THEN [ns EXCEPT ![t].input_subscriptions =
              DictSet(@, f, "live")]
    ELSE ns

\* Node.unsubscribe_from_input: disposes the subscription (which cancels
\* what the scheduler still holds for it) and deletes the key
unsubscribe_from_input(ns, t, f) ==
    IF f \in DOMAIN ns[t].input_subscriptions
    THEN [ns EXCEPT ![t].input_subscriptions = DictDel(@, f)]
    ELSE ns

\* Node.handle_input_completion
\* handle_input_completion that also ends the node's own output stream
handle_input_completion_cascade(ns, t, f) ==
    [unsubscribe_from_input(ns, t, f) EXCEPT ![t].subject = "disposed"]

handle_input_completion(ns, t, f) == unsubscribe_from_input(ns, t, f)

\* The nodes that hold a live subscription to the Subject of the object
\* registered as id
Subscribers(ns, id) ==
    { n \in DOMAIN ns :
        /\ id \in DOMAIN ns[n].input_subscriptions
        /\ ns[n].input_subscriptions[id] = "live" }

\* Subject.on_completed as one subscriber sees it: a PlotNode subscribed
\* without observe_on and runs handle_input_completion inside the call; a
\* Node subscribed through observe_on(self.scheduler), which queues the
\* completion for the event loop.
OnCompleted(n, id) ==
    IF n.class = "PlotNode"
    THEN [n EXCEPT !.input_subscriptions = DictDel(@, id)]
    ELSE [n EXCEPT !.input_subscriptions[id] = "completing"]

\* subject.on_completed() and subject.on_next() of a disposed Subject raise
DisposedException(ns, id) == ns[id].subject = "disposed"

\* The end of Node.dispose: subject.on_completed() reaches the subscribers
\* unless it raises, which dispose catches; subject.dispose() follows.
CompleteSubject(ns, id) ==
    IF DisposedException(ns, id) THEN ns
    ELSE LET subs == Subscribers(ns, id)
         IN  [n \in DOMAIN ns |->
                 IF n = id
                 THEN [(IF n \in subs THEN OnCompleted(ns[n], id) ELSE ns[n])
                          EXCEPT !.subject = "disposed"]
                 ELSE IF n \in subs THEN OnCompleted(ns[n], id) ELSE ns[n]]

\* dispose looping over the dict itself, not over a copy of its keys: the
\* first removal ends the loop with a RuntimeError
dispose_without_copy(ns, id) ==
    IF DOMAIN ns[id].input_subscriptions = {} THEN CompleteSubject(ns, id)
    ELSE [ns EXCEPT ![id].input_subscriptions =
             DictDel(@, CHOOSE k \in DOMAIN @ : TRUE)]

\* Node.dispose: unsubscribe from every input, then complete the Subject
dispose(ns, id) ==
    CompleteSubject([ns EXCEPT ![id].input_subscriptions = NoSubscriptions], id)

----------------------------------------------------------------------------
\* PipelineGraph queries

\* The dependency map of topological_order and would_create_cycle
DependencyMap(ns) == [n \in DOMAIN ns |-> ToSet(ns[n].inputs)]

\* TopologicalSorter.static_order raises CycleError: nodes without a
\* remaining predecessor are taken out until none is left to take.
RECURSIVE CycleError(_, _)
CycleError(dep, left) ==
    LET ready == { n \in left : dep[n] \cap left = {} }
    IN  IF left = {} THEN FALSE
        ELSE IF ready = {} THEN TRUE
        ELSE CycleError(dep, left \ ready)

\* TopologicalSorter(dep): predecessors that are no key become nodes too
SorterNodes(dep) == (DOMAIN dep) \cup UNION { dep[n] : n \in DOMAIN dep }

SorterGraph(dep) ==
    [n \in SorterNodes(dep) |-> IF n \in DOMAIN dep THEN dep[n] ELSE {}]

\* would_create_cycle with the hypothetical edge entered the wrong way round
would_create_cycle_reversed(ns, from_id, to_id) ==
    IF from_id \notin DOMAIN ns \/ to_id \notin DOMAIN ns THEN FALSE
    ELSE IF from_id = to_id THEN TRUE
    ELSE LET temp == [DependencyMap(ns) EXCEPT ![from_id] = @ \cup {to_id}]
         IN  CycleError(SorterGraph(temp), SorterNodes(temp))

would_create_cycle(ns, from_id, to_id) ==
    IF from_id \notin DOMAIN ns \/ to_id \notin DOMAIN ns THEN FALSE
    ELSE IF from_id = to_id THEN TRUE
    ELSE LET temp == [DependencyMap(ns) EXCEPT ![to_id] = @ \cup {from_id}]
         IN  CycleError(SorterGraph(temp), SorterNodes(temp))

\* All orders in which the ids of S can be listed
Perms(S) ==
    { p \in [1..Cardinality(S) -> S] :
        \A i \in DOMAIN p, j \in DOMAIN p : p[i] = p[j] => i = j }

\* TopologicalSorter.static_order: the ready nodes are yielded group after
\* group; inside a group the order is that of dict and set iteration, which
\* the caller does not control, so every order of the group is an outcome.
RECURSIVE StaticOrders(_, _)
StaticOrders(dep, left) ==
    LET ready == { n \in left : dep[n] \cap left = {} }
    IN  IF left = {} THEN { <<>> }
        ELSE { p \o r : p \in Perms(ready),
                        r \in StaticOrders(dep, left \ ready) }

\* topological_order(): the lists it can return; none when it raises
topological_order(ns) ==
    LET dep == DependencyMap(ns)
    IN  IF CycleError(SorterGraph(dep), SorterNodes(dep)) THEN {}
        ELSE StaticOrders(SorterGraph(dep), SorterNodes(dep))

\* The loop of get_reachable_nodes: pop, skip the visited, push the outputs
\* not visited yet
RECURSIVE Visit(_, _, _)
Visit(ns, stack, visited) ==
    IF stack = <<>> THEN visited
    ELSE LET current == stack[Len(stack)]
             rest == SubSeq(stack, 1, Len(stack) - 1)
             seen == visited \cup {current}
             Fresh(o) == o \notin seen
         IN  IF current \in visited THEN Visit(ns, rest, visited)
             ELSE IF current \in DOMAIN ns
             THEN Visit(ns, rest \o SelectSeq(ns[current].outputs, Fresh), seen)
             ELSE Visit(ns, rest, seen)

\* get_reachable_nodes that only looks at the outputs of from_id
get_reachable_nodes_one_step(ns, from_id) ==
    IF from_id \notin DOMAIN ns THEN {}
    ELSE {from_id} \cup ToSet(ns[from_id].outputs)

\* get_reachable_nodes that leaves the start out of the result
get_reachable_nodes_without_start(ns, from_id) ==
    IF from_id \notin DOMAIN ns THEN {}
    ELSE Visit(ns, <<from_id>>, {}) \ {from_id}

\* get_reachable_nodes without the test for an unregistered from_id
get_reachable_nodes_unguarded(ns, from_id) == Visit(ns, <<from_id>>, {})

get_reachable_nodes(ns, from_id) ==
    IF from_id \notin DOMAIN ns THEN {}
    ELSE Visit(ns, <<from_id>>, {})

\* would_create_cycle adding the hypothetical edge to node.inputs itself
after_would_create_cycle_in_place(ns, from_id, to_id) ==
    IF from_id \notin DOMAIN ns \/ to_id \notin DOMAIN ns \/ from_id = to_id
    THEN ns
    ELSE [ns EXCEPT ![to_id].inputs = AppendIfAbsent(@, from_id)]

\* The graph after would_create_cycle: temp_dependency_map holds
\* set(node.inputs), a new set per node, and the edge is added to that set
after_would_create_cycle(ns, from_id, to_id) == ns

\* The graph after topological_order: dependency_map holds set(node.inputs)
after_topological_order(ns) == ns

\* The graph after get_reachable_nodes: visited and stack are locals, the
\* outputs lists are only read
after_get_reachable_nodes(ns, from_id) == ns

----------------------------------------------------------------------------
\* PipelineGraph mutations

\* DataSource.__init__
SourceInit ==
    [ stop_requested |-> FALSE,
      is_running     |-> FALSE,
      tasks          |-> <<>>,
      traces         |-> <<>> ]

\* PS5444DMSO_oscope_server.initServer: nothing runs, settings_changed is set,
\* the loop thread is not started, the server thread handles no setting
ScopeInit ==
    [ running          |-> FALSE,
      repeat           |-> FALSE,
      stop_repeat      |-> FALSE,
      callback_repeat  |-> FALSE,
      settings_changed |-> TRUE,
      block            |-> "none",
      loop_thread      |-> "not alive",
      server           |-> "idle" ]

\* One edge a -> b before b is made: no subscription, nothing emitted
FlowInit ==
    [ node      |-> "none",
      loop      |-> "main",
      sub       |-> 0,
      made      |-> 0,
      queue     |-> <<>>,
      handoff   |-> <<>>,
      faulted   |-> {},
      next      |-> 1,
      processed |-> <<>>,
      dropped   |-> <<>>,
      raised    |-> FALSE,
      subject   |-> "open" ]

Init ==
    /\ nodes = [n \in {} |-> NewNode(CHOOSE k \in NodeKinds : TRUE)]
    /\ calls = 0
    /\ probe = [stage |-> "none"]
    /\ source = SourceInit
    /\ scope = ScopeInit
    /\ flow = FlowInit

\* One more call of the host
Call ==
    /\ calls < MaxCalls
    /\ calls' = calls + 1
    /\ UNCHANGED <<source, scope, flow>>

\* A node object that add_node replaces stays alive, undisposed, as long as
\* a subscription to its Subject keeps it: that subscription is orphaned,
\* its Subject never emits or completes again.
Orphan(n, id) ==
    IF id \in DOMAIN n.input_subscriptions /\ n.input_subscriptions[id] = "live"
    THEN [n EXCEPT !.input_subscriptions[id] = "orphan"]
    ELSE n

\* add_node(node) with a newly constructed node: self.nodes[node.id] = node
add_node(ns, id, kind) ==
    [n \in (DOMAIN ns) \cup {id} |->
        IF n = id THEN NewNode(kind) ELSE Orphan(ns[n], id)]

AddNode(id, kind) ==
    /\ Call
    /\ nodes' = add_node(nodes, id, kind)
    /\ probe' = [stage |-> "none"]

\* remove_node(node_id)
RECURSIVE DropOutputs(_, _, _)
DropOutputs(ns, ups, id) ==
    IF ups = <<>> THEN ns
    ELSE LET up == Head(ups)
             ns1 == IF up \in DOMAIN ns
                    THEN [ns EXCEPT ![up].outputs = ListRemove(@, id)]
                    ELSE ns
         IN  DropOutputs(ns1, Tail(ups), id)

RECURSIVE DropInputs(_, _, _)
DropInputs(ns, downs, id) ==
    IF downs = <<>> THEN ns
    ELSE LET down == Head(downs)
             ns1 == IF down \in DOMAIN ns
                    THEN [ns EXCEPT ![down].inputs = ListRemove(@, id)]
                    ELSE ns
         IN  DropInputs(ns1, Tail(downs), id)

remove_node(ns, id) ==
    IF id \notin DOMAIN ns THEN ns
    ELSE LET upstream_ids == ns[id].inputs
             downstream_ids == ns[id].outputs
             ns1 == dispose(ns, id)
             ns2 == DropOutputs(ns1, upstream_ids, id)
             ns3 == DropInputs(ns2, downstream_ids, id)
         IN  [n \in (DOMAIN ns3) \ {id} |-> ns3[n]]

RemoveNode(id) ==
    /\ Call
    /\ nodes' = remove_node(nodes, id)
    /\ probe' = [stage |-> "none"]

\* add_edge(from_id, to_id); a KeyError leaves everything as it was
\* add_edge raises KeyError when one of the ids is not registered
KeyError(ns, from_id, to_id) ==
    from_id \notin DOMAIN ns \/ to_id \notin DOMAIN ns

add_edge(ns, from_id, to_id) ==
    IF KeyError(ns, from_id, to_id) THEN ns
    ELSE LET ns1 == [ns EXCEPT ![from_id].outputs = AppendIfAbsent(@, to_id)]
             ns2 == [ns1 EXCEPT ![to_id].inputs = AppendIfAbsent(@, from_id)]
         IN  subscribe_to_input(ns2, to_id, from_id)

AddEdge(from_id, to_id) ==
    /\ Call
    /\ nodes' = add_edge(nodes, from_id, to_id)
    /\ probe' = IF from_id # to_id /\ {from_id, to_id} \subseteq DOMAIN nodes
                THEN [stage |-> "added", a |-> from_id, b |-> to_id,
                      pre |-> would_create_cycle(nodes, to_id, from_id)]
                ELSE [stage |-> "none"]

\* remove_edge that forgets the inputs list of to_id
remove_edge_keeps_input(ns, from_id, to_id) ==
    IF from_id \notin DOMAIN ns \/ to_id \notin DOMAIN ns THEN ns
    ELSE LET ns1 == unsubscribe_from_input(ns, to_id, from_id)
         IN  [ns1 EXCEPT ![from_id].outputs = ListRemove(@, to_id)]

\* remove_edge that empties the outputs list of from_id
remove_edge_clears_outputs(ns, from_id, to_id) ==
    IF from_id \notin DOMAIN ns \/ to_id \notin DOMAIN ns THEN ns
    ELSE LET ns1 == unsubscribe_from_input(ns, to_id, from_id)
             ns2 == [ns1 EXCEPT ![from_id].outputs = <<>>]
         IN  [ns2 EXCEPT ![to_id].inputs = ListRemove(@, from_id)]

\* remove_edge(from_id, to_id)
remove_edge(ns, from_id, to_id) ==
    IF from_id \notin DOMAIN ns \/ to_id \notin DOMAIN ns THEN ns
    ELSE LET ns1 == unsubscribe_from_input(ns, to_id, from_id)
             ns2 == [ns1 EXCEPT ![from_id].outputs = ListRemove(@, to_id)]
         IN  [ns2 EXCEPT ![to_id].inputs = ListRemove(@, from_id)]

RemoveEdge(from_id, to_id) ==
    /\ Call
    /\ nodes' = remove_edge(nodes, from_id, to_id)
    /\ probe' = IF /\ probe.stage = "added"
                   /\ probe.a = from_id
                   /\ probe.b = to_id
                THEN [probe EXCEPT !.stage = "removed"]
                ELSE [stage |-> "none"]

\* The host calls node.subscribe_to_input(other) itself, as
\* MainWindow.create_plot_node does for a new plot node.
SubscribeToInput(t, f) ==
    /\ Call
    /\ t \in DOMAIN nodes
    /\ f \in DOMAIN nodes
    /\ nodes' = subscribe_to_input(nodes, t, f)
    /\ probe' = [stage |-> "none"]

\* The event loop runs a queued on_completed of t's subscription to f.
DeliverCompletion(t, f) ==
    /\ t \in DOMAIN nodes
    /\ f \in DOMAIN nodes[t].input_subscriptions
    /\ nodes[t].input_subscriptions[f] = "completing"
    /\ nodes' = handle_input_completion(nodes, t, f)
    /\ UNCHANGED <<calls, probe, source, scope, flow>>

\* The host calls node.unsubscribe_from_input(id) itself, as
\* MainWindow does for the plot node of the active stream.
Unsubscribe(t, f) ==
    /\ Call
    /\ t \in DOMAIN nodes
    /\ nodes' = unsubscribe_from_input(nodes, t, f)
    /\ probe' = [stage |-> "none"]

\* node.dispose() on a node the caller keeps
Dispose(id) ==
    /\ Call
    /\ id \in DOMAIN nodes
    /\ nodes' = dispose(nodes, id)
    /\ probe' = [stage |-> "none"]

\* add_edge and subscribe_to_input from a node that has not been disposed
EdgeFromOpen(f, t) ==
    /\ f \in DOMAIN nodes
    /\ nodes[f].subject = "open"
    /\ AddEdge(f, t)

SubscribeToOpen(t, f) ==
    /\ f \in DOMAIN nodes
    /\ nodes[f].subject = "open"
    /\ SubscribeToInput(t, f)

Next ==
    \/ \E id \in Ids, kind \in NodeKinds : AddNode(id, kind)
    \/ \E id \in Ids : RemoveNode(id)
    \/ \E f \in Ids, t \in Ids : AddEdge(f, t)
    \/ \E f \in Ids, t \in Ids : RemoveEdge(f, t)
    \/ \E t \in Ids, f \in Ids : SubscribeToInput(t, f)
    \/ \E t \in Ids, f \in Ids : DeliverCompletion(t, f)

Spec == Init /\ [][Next]_vars

\* Node objects used directly: besides the graph's edges the caller
\* subscribes, unsubscribes and disposes nodes it holds.
NextNode ==
    \/ \E id \in Ids, kind \in NodeKinds : AddNode(id, kind)
    \/ \E f \in Ids, t \in Ids : EdgeFromOpen(f, t)
    \/ \E t \in Ids, f \in Ids : SubscribeToOpen(t, f)
    \/ \E t \in Ids, f \in Ids : Unsubscribe(t, f)
    \/ \E id \in Ids : Dispose(id)
    \/ \E t \in Ids, f \in Ids : DeliverCompletion(t, f)

SpecNode == Init /\ [][NextNode]_vars

\* add_edge made only right after would_create_cycle returned False, as
\* NodeDialog does in edit mode
GuardedAddEdge(from_id, to_id) ==
    /\ ~would_create_cycle(nodes, from_id, to_id)
    /\ AddEdge(from_id, to_id)

NextGuarded ==
    \/ \E id \in Ids, kind \in NodeKinds : AddNode(id, kind)
    \/ \E id \in Ids : RemoveNode(id)
    \/ \E f \in Ids, t \in Ids : GuardedAddEdge(f, t)
    \/ \E f \in Ids, t \in Ids : RemoveEdge(f, t)
    \/ \E t \in Ids, f \in Ids : DeliverCompletion(t, f)

SpecGuarded == Init /\ [][NextGuarded]_vars

\* The graph with its event loop: a callback queued with call_soon is run
\* by the loop, in the end
LoopCall == calls < MaxLoopCalls

NextLoop ==
    \/ \E id \in Ids, kind \in NodeKinds : LoopCall /\ AddNode(id, kind)
    \/ \E id \in Ids : LoopCall /\ RemoveNode(id)
    \/ \E f \in Ids, t \in Ids : LoopCall /\ AddEdge(f, t)
    \/ \E f \in Ids, t \in Ids : LoopCall /\ RemoveEdge(f, t)
    \/ \E t \in Ids, f \in Ids : LoopCall /\ SubscribeToInput(t, f)
    \/ \E t \in Ids, f \in Ids : DeliverCompletion(t, f)

SpecLoop ==
    /\ Init
    /\ [][NextLoop]_vars
    /\ \A t \in Ids, f \in Ids : WF_vars(DeliverCompletion(t, f))

----------------------------------------------------------------------------
\* Saving and loading a pipeline

\* serialize_pipeline: one entry per node, in the order of the nodes dict
serialize_pipeline(ns, order) ==
    [i \in 1..Len(order) |->
        [id      |-> order[i],
         type    |-> ns[order[i]].node_type,
         class   |-> ns[order[i]].class,
         inputs  |-> ns[order[i]].inputs,
         outputs |-> ns[order[i]].outputs]]

\* create_node_from_data: a PlotNode needs a plot widget, a CatchmentNode
\* gets a new DataSource, everything else is a base Node of the saved type
create_node_from_data(entry, plotwidget) ==
    IF entry.class = "PlotNode" /\ plotwidget
    THEN NewNode([class |-> "PlotNode", node_type |-> "discharge"])
    ELSE IF entry.class = "CatchmentNode"
    THEN NewNode([class |-> "CatchmentNode", node_type |-> "catchment"])
    ELSE NewNode([class |-> "Node", node_type |-> entry.type])

\* 1) Recreate nodes
RECURSIVE RecreateNodes(_, _, _, _)
RecreateNodes(data, i, g, plotwidget) ==
    IF i > Len(data) THEN g
    ELSE RecreateNodes(data, i + 1,
             add_node(g, data[i].id, create_node_from_data(data[i], plotwidget)),
             plotwidget)

\* 2) Recreate edges; add_edge raises KeyError for an id that is no entry
RECURSIVE RecreateEdges(_, _, _, _)
RecreateEdges(data, i, j, g) ==
    IF i > Len(data) THEN [raised |-> FALSE, nodes |-> g]
    ELSE IF j > Len(data[i].outputs) THEN RecreateEdges(data, i + 1, 1, g)
    ELSE IF KeyError(g, data[i].id, data[i].outputs[j])
    THEN [raised |-> TRUE, nodes |-> g]
    ELSE RecreateEdges(data, i, j + 1, add_edge(g, data[i].id, data[i].outputs[j]))

deserialize_pipeline(data, plotwidget) ==
    RecreateEdges(data, 1, 1, RecreateNodes(data, 1, <<>>, plotwidget))

----------------------------------------------------------------------------
\* The edges the nodes record

\* f -> t as the inputs lists record it (what the dependency map holds)
InputEdges(ns) ==
    { <<f, t>> \in Ids \X Ids : t \in DOMAIN ns /\ Contains(ns[t].inputs, f) }

\* f -> t as the outputs lists record it
OutputEdges(ns) ==
    { <<f, t>> \in Ids \X Ids : f \in DOMAIN ns /\ Contains(ns[f].outputs, t) }

Edges(ns) == InputEdges(ns) \cup OutputEdges(ns)

\* Pairs joined by a path of one or more edges of E
RECURSIVE Paths(_, _)
Paths(E, R) ==
    LET more == R \cup { <<x, z>> \in Ids \X Ids :
                            \E y \in Ids : <<x, y>> \in R /\ <<y, z>> \in E }
    IN  IF more = R THEN R ELSE Paths(E, more)

Reachable(E, x, y) == <<x, y>> \in Paths(E, E)

Acyclic(E) == \A x \in Ids : ~Reachable(E, x, x)

\* What a caller can see of the graph: per node its lists and the keys of
\* its subscription map
View(ns) ==
    [n \in DOMAIN ns |->
        <<ns[n].inputs, ns[n].outputs, DOMAIN ns[n].input_subscriptions>>]

----------------------------------------------------------------------------
\* C1: whatever add_node, add_edge, remove_edge and remove_node calls were
\* made, the edges recorded in the inputs and outputs lists hold no cycle
\* and no self-loop.
C1_EdgesAcyclic == Acyclic(Edges(nodes))

\* C2: add_edge(from_id, to_id) on two registered nodes with from_id = to_id
\* or from_id reachable from to_id leaves every node's inputs, outputs and
\* subscription keys as they were.
C2_CyclicEdgeRefused ==
    [][\A f \in Ids, t \in Ids :
          ( /\ f \in DOMAIN nodes
            /\ t \in DOMAIN nodes
            /\ (f = t \/ Reachable(Edges(nodes), t, f))
            /\ AddEdge(f, t) )
          => View(nodes') = View(nodes)]_vars

\* C3: for all registered A and B, A is in B.inputs exactly when B is in
\* A.outputs.
C3_ListsMirrored ==
    \A A \in DOMAIN nodes, B \in DOMAIN nodes :
        Contains(nodes[B].inputs, A) <=> Contains(nodes[A].outputs, B)

\* C4: between operations the keys of every node's subscription map are
\* the ids of its inputs list.
C4_SubscriptionsMatchInputs ==
    \A n \in DOMAIN nodes :
        DOMAIN nodes[n].input_subscriptions = ToSet(nodes[n].inputs)

\* C5: a node of type "catchment" has an empty inputs list in every state.
C5_SourceHasNoInputs ==
    \A n \in DOMAIN nodes :
        nodes[n].node_type = "catchment" => nodes[n].inputs = <<>>

\* C6: add_node with an id that is already registered leaves the nodes map
\* as it was: the registered node, its edges and its subscriptions stay.
C6_DuplicateIdRefused ==
    [][\A id \in Ids, kind \in NodeKinds :
          (id \in DOMAIN nodes /\ AddNode(id, kind)) => nodes' = nodes]_vars

\* C7: after remove_node(id), id is in neither the inputs nor the outputs
\* list of any remaining node.
C7_NoDanglingReference ==
    [][\A id \in Ids :
          RemoveNode(id) =>
              \A n \in DOMAIN nodes' :
                  /\ ~Contains(nodes'[n].inputs, id)
                  /\ ~Contains(nodes'[n].outputs, id)]_vars

\* C8: when remove_node(id) returns, no remaining node holds a subscription
\* keyed by id.
C8_SubscriptionsCancelledInCall ==
    [][\A id \in Ids :
          (id \in DOMAIN nodes /\ RemoveNode(id)) =>
              \A n \in DOMAIN nodes' :
                  id \notin DOMAIN nodes'[n].input_subscriptions]_vars

C10_FalseAfterRemove ==
    (probe.stage = "removed" /\ Acyclic(Edges(nodes))) =>
        ~would_create_cycle(nodes, probe.b, probe.a)

\* C10 amended: for distinct registered a and b for which
\* would_create_cycle(b, a) was false before add_edge(a, b), it is false
\* again after add_edge(a, b) followed by remove_edge(a, b).
C10_FalseAgainAfterRemove ==
    (probe.stage = "removed" /\ ~probe.pre) =>
        ~would_create_cycle(nodes, probe.b, probe.a)

\* add_edge(a, b) and remove_edge(a, b) were made where b -> a was allowed
C10_Witness ==
    /\ probe.stage = "removed"
    /\ ~probe.pre
    /\ {probe.a, probe.b} \subseteq DOMAIN nodes
    /\ ~Contains(nodes[probe.b].inputs, probe.a)
    /\ ~would_create_cycle(nodes, probe.b, probe.a)

----------------------------------------------------------------------------
\* catchments/data_source.py: DataSource. start() and stop() have no await
\* inside and a generation task runs from one await to the next, so each is
\* one step of the event loop.

\* DataSource.start
start(src) ==
    IF src.is_running THEN src
    ELSE [src EXCEPT !.stop_requested = FALSE,
                     !.is_running = TRUE,
                     !.tasks = Append(@, "created")]

\* DataSource.stop
stop(src) ==
    IF ~src.is_running THEN src
    ELSE [src EXCEPT !.stop_requested = TRUE,
                     !.is_running = FALSE]

\* gen_traces_signal of task i, from its start or from its sleep to the
\* next sleep or to its end: the while test, the emission, the sleep
gen_traces_signal(src, i) ==
    IF src.stop_requested
    THEN [src EXCEPT !.tasks[i] = "done"]
    ELSE [src EXCEPT !.tasks[i] = "sleeping",
                     !.traces = Append(@, i)]

\* The tasks that have not ended
ActiveTasks(src) ==
    { i \in 1..Len(src.tasks) : src.tasks[i] # "done" }

Start ==
    /\ source.is_running \/ Len(source.tasks) < MaxTasks
    /\ source' = start(source)
    /\ UNCHANGED <<nodes, calls, probe, scope, flow>>

Stop ==
    /\ source' = stop(source)
    /\ UNCHANGED <<nodes, calls, probe, scope, flow>>

TaskStep(i) ==
    /\ i \in ActiveTasks(source)
    /\ source.stop_requested \/ Len(source.traces) < MaxTraces
    /\ source' = gen_traces_signal(source, i)
    /\ UNCHANGED <<nodes, calls, probe, scope, flow>>

NextSource ==
    \/ Start
    \/ Stop
    \/ \E i \in 1..MaxTasks : TaskStep(i)

SpecSource == Init /\ [][NextSource]_vars

----------------------------------------------------------------------------
\* picoscope_5444DMSO/5444DMSO_oscope_server.py. Three threads: the server
\* thread that handles one setting at a time, the loop thread of the
\* continuous run and the driver thread that calls block_ready_callback.

BlockStatus == {"PICO_OK", "PICO_CANCELLED", "PICO_NOT_RESPONDING"}

\* util_run_block: dispatch a block unless one is running
util_run_block(sc) ==
    IF ~sc.running
    THEN [sc EXCEPT !.running = TRUE, !.block = "dispatched"]
    ELSE sc

\* block_ready_callback: running is cleared on the branch that reads the
\* values off, callback_repeat is set in continuous mode
block_ready_callback(sc, statusCallback) ==
    LET sc1 == [sc EXCEPT !.block = "none"]
        sc2 == IF statusCallback = "PICO_OK"
               THEN [sc1 EXCEPT !.running = FALSE]
               ELSE sc1
    IN  IF sc2.repeat THEN [sc2 EXCEPT !.callback_repeat = TRUE] ELSE sc2

\* wait_to_update_settings, up to its wait
wait_to_update_settings(sc) ==
    [sc EXCEPT !.settings_changed = FALSE,
               !.server = IF sc.running THEN "callback_repeat.wait"
                          ELSE "updating"]

\* done_updating_settings
done_updating_settings(sc) ==
    [sc EXCEPT !.settings_changed = TRUE, !.server = "idle"]

\* The server thread takes one of set_active_channel, deactivate_channel,
\* set_timebase, set_trigger
BeginSetting ==
    /\ scope.server = "idle"
    /\ scope' = wait_to_update_settings(scope)
    /\ UNCHANGED <<nodes, calls, probe, source, flow>>

\* callback_repeat.wait() of wait_to_update_settings returns
SettingWaitReturns ==
    /\ scope.server = "callback_repeat.wait"
    /\ scope.callback_repeat
    /\ scope' = [scope EXCEPT !.server = "updating"]
    /\ UNCHANGED <<nodes, calls, probe, source, flow>>

\* The rest of the setting: with valid arguments and a device that answers
\* it ends in done_updating_settings, otherwise it raises before that
EndSetting(valid) ==
    /\ scope.server = "updating"
    /\ scope' = IF valid THEN done_updating_settings(scope)
                 ELSE [scope EXCEPT !.server = "idle"]
    /\ UNCHANGED <<nodes, calls, probe, source, flow>>

\* run_block
RunBlock ==
    /\ scope.server = "idle"
    /\ scope' = util_run_block(scope)
    /\ UNCHANGED <<nodes, calls, probe, source, flow>>

\* run_loop: joins a loop thread that is alive, then starts a new one
RunLoop ==
    /\ scope.server = "idle"
    /\ scope' = [scope EXCEPT
                    !.repeat = TRUE,
                    !.stop_repeat = FALSE,
                    !.server = IF scope.loop_thread = "not alive"
                               THEN "idle" ELSE "run_loop join",
                    !.loop_thread = IF scope.loop_thread = "not alive"
                                    THEN "while" ELSE @]
    /\ UNCHANGED <<nodes, calls, probe, source, flow>>

\* stop_loop: util_stop_loop joins a loop thread that is alive
StopLoop ==
    /\ scope.server = "idle"
    /\ scope' = [scope EXCEPT
                    !.repeat = FALSE,
                    !.stop_repeat = TRUE,
                    !.callback_repeat = TRUE,
                    !.server = IF scope.loop_thread = "not alive"
                               THEN "idle" ELSE "stop_loop join"]
    /\ UNCHANGED <<nodes, calls, probe, source, flow>>

\* loop_thread.join() returns
JoinReturns ==
    /\ scope.server \in {"run_loop join", "stop_loop join"}
    /\ scope.loop_thread = "not alive"
    /\ scope' = [scope EXCEPT
                    !.server = "idle",
                    !.loop_thread = IF scope.server = "run_loop join"
                                    THEN "while" ELSE @]
    /\ UNCHANGED <<nodes, calls, probe, source, flow>>

\* loop_in_thread: the while test with util_run_block
LoopRunBlock ==
    /\ scope.loop_thread = "while"
    /\ scope' = IF scope.stop_repeat
                 THEN [scope EXCEPT !.loop_thread = "not alive"]
                 ELSE [util_run_block(scope) EXCEPT
                          !.loop_thread = "callback_repeat.wait"]
    /\ UNCHANGED <<nodes, calls, probe, source, flow>>

\* loop_in_thread: callback_repeat.wait() returns
LoopWaitReturns ==
    /\ scope.loop_thread = "callback_repeat.wait"
    /\ scope.callback_repeat
    /\ scope' = [scope EXCEPT !.loop_thread = "callback_repeat.clear"]
    /\ UNCHANGED <<nodes, calls, probe, source, flow>>

\* loop_in_thread: callback_repeat.clear()
LoopClear ==
    /\ scope.loop_thread = "callback_repeat.clear"
    /\ scope' = [scope EXCEPT !.callback_repeat = FALSE,
                               !.loop_thread = "settings_changed.wait"]
    /\ UNCHANGED <<nodes, calls, probe, source, flow>>

\* loop_in_thread: settings_changed.wait() returns
LoopSettingsReturns ==
    /\ scope.loop_thread = "settings_changed.wait"
    /\ scope.settings_changed
    /\ scope' = [scope EXCEPT !.loop_thread = "while"]
    /\ UNCHANGED <<nodes, calls, probe, source, flow>>

\* The driver calls block_ready_callback for the dispatched block
BlockReady(statusCallback) ==
    /\ scope.block = "dispatched"
    /\ scope' = block_ready_callback(scope, statusCallback)
    /\ UNCHANGED <<nodes, calls, probe, source, flow>>

NextScope ==
    \/ BeginSetting
    \/ SettingWaitReturns
    \/ \E valid \in BOOLEAN : EndSetting(valid)
    \/ RunBlock
    \/ RunLoop
    \/ StopLoop
    \/ JoinReturns
    \/ LoopRunBlock
    \/ LoopWaitReturns
    \/ LoopClear
    \/ LoopSettingsReturns
    \/ \E statusCallback \in BlockStatus : BlockReady(statusCallback)

SpecScope == Init /\ [][NextScope]_vars

----------------------------------------------------------------------------
\* Values on one edge a -> b. b is a Node, whose subscription goes through
\* observe_on(self.scheduler) and is served from a queue by b's loop, or a
\* PlotNode, whose subscription is called inside a's on_next, on a's loop.
\* Each node runs process_input on its own loop only, so a emits on a's loop.

\* The loops a node can be given; a is on ALoop
Loops == {"main", "other"}
ALoop == "main"

\* AutoDetachObserver.is_stopped of subscription s: set by its dispose,
\* which unsubscribe_from_input calls
Stopped(fl, s) == s # fl.sub

\* a queue that takes new values at its head
EnqueueFront(q, item) == <<item>> \o q

\* ScheduledObserver.queue.append
Enqueue(q, item) == Append(q, item)

\* Node.process_input with the value of item, from source a; it may raise
process_input(fl, item, fails) ==
    [fl EXCEPT !.processed = Append(@, item),
               !.raised = @ \/ fails]

\* a hand-off that is made for odd values only
handle_input_data_some(fl, item, running, fails) ==
    IF running = fl.loop \/ item.v % 2 = 0
    THEN process_input(fl, item, fails)
    ELSE [fl EXCEPT !.handoff = Append(@, item)]

\* Node.handle_input_data, called on the loop named running: process_input
\* at once on the node's own loop, else handed to it by call_soon_threadsafe
handle_input_data(fl, item, running, fails) ==
    IF running = fl.loop
    THEN process_input(fl, item, fails)
    ELSE [fl EXCEPT !.handoff = Append(@, item)]

\* The place in the queue of the oldest value of subscription s
FirstOf(q, s) ==
    CHOOSE i \in 1..Len(q) : q[i].sub = s /\ \A j \in 1..(i - 1) : q[j].sub # s

\* The queue without its place i
DropAt(q, i) == SubSeq(q, 1, i - 1) \o SubSeq(q, i + 1, Len(q))

\* The queue without the values of subscription s
DropSub(q, s) ==
    LET Other(item) == item.sub # s
    IN  SelectSeq(q, Other)

\* ScheduledObserver.run for subscription s: the oldest queued value goes to
\* the observer, which ignores it once stopped; an exception of the
\* observer empties the queue, sets has_faulted and is raised to the loop
run(fl, s, fails) ==
    LET i == FirstOf(fl.queue, s)
        item == fl.queue[i]
        fl1 == [fl EXCEPT !.queue = DropAt(@, i)]
    IN  IF Stopped(fl, s)
        THEN [fl1 EXCEPT !.dropped = Append(@, item)]
        ELSE LET fl2 == handle_input_data(fl1, item, fl.loop, fails)
             IN  IF fails
                 THEN [fl2 EXCEPT !.queue = DropSub(@, s),
                                  !.faulted = @ \cup {s}]
                 ELSE fl2

\* a.subject.on_next(value): to b's subscription, if there is one
on_next(fl, fails) ==
    LET item == [v |-> fl.next, sub |-> fl.sub]
        fl1 == [fl EXCEPT !.next = @ + 1]
    IN  IF fl.sub = 0 THEN fl1
        ELSE IF fl.node = "PlotNode"
        THEN handle_input_data(fl1, item, ALoop, fails)
        ELSE IF fl.sub \in fl.faulted
        THEN [fl1 EXCEPT !.dropped = Append(@, item)]
        ELSE [fl1 EXCEPT !.queue = Enqueue(@, item)]

\* b is made, a Node or a PlotNode, on one of the loops
FlowCreate(class, loop) ==
    /\ flow.node = "none"
    /\ flow' = [flow EXCEPT !.node = class, !.loop = loop]
    /\ UNCHANGED <<nodes, calls, probe, source, scope>>

\* add_edge(a, b) or b.subscribe_to_input(a) without a subscription yet
FlowSubscribe ==
    /\ flow.node # "none"
    /\ flow.sub = 0
    /\ flow.made < MaxSubs
    /\ flow' = [flow EXCEPT !.sub = flow.made + 1, !.made = @ + 1]
    /\ UNCHANGED <<nodes, calls, probe, source, scope>>

\* remove_edge(a, b) or b.unsubscribe_from_input(a)
FlowUnsubscribe ==
    /\ flow.sub # 0
    /\ flow' = [flow EXCEPT !.sub = 0]
    /\ UNCHANGED <<nodes, calls, probe, source, scope>>

\* a emits its next value
Emit(fails) ==
    /\ flow.node # "none"
    /\ flow.next <= MaxValues
    /\ flow' = on_next(flow, fails)
    /\ UNCHANGED <<nodes, calls, probe, source, scope>>

\* b's loop runs the scheduled delivery of subscription s
Deliver(s, fails) ==
    /\ \E i \in 1..Len(flow.queue) : flow.queue[i].sub = s
    /\ flow' = run(flow, s, fails)
    /\ UNCHANGED <<nodes, calls, probe, source, scope>>

\* b's loop runs a call handed to it by call_soon_threadsafe
RunHandoff(fails) ==
    /\ flow.handoff # <<>>
    /\ flow' = process_input([flow EXCEPT !.handoff = Tail(@)],
                             Head(flow.handoff), fails)
    /\ UNCHANGED <<nodes, calls, probe, source, scope>>

NextFlow ==
    \/ \E class \in {"Node", "PlotNode"}, loop \in Loops : FlowCreate(class, loop)
    \/ \E fails \in BOOLEAN : RunHandoff(fails)
    \/ FlowSubscribe
    \/ FlowUnsubscribe
    \/ \E fails \in BOOLEAN : Emit(fails)
    \/ \E s \in 1..MaxSubs, fails \in BOOLEAN : Deliver(s, fails)

SpecFlow == Init /\ [][NextFlow]_vars

----------------------------------------------------------------------------
\* Position of id x in the list o
IndexOf(o, x) == CHOOSE i \in 1..Len(o) : o[i] = x

RoundTrips(ns) ==
    { deserialize_pipeline(serialize_pipeline(ns, order), plotwidget) :
        order \in Perms(DOMAIN ns), plotwidget \in BOOLEAN }

\* C14: serialize_pipeline followed by deserialize_pipeline gives a graph
\* with the same node ids and, for every node, the same inputs and the same
\* outputs (as sets of ids) as the graph that was saved.
C14_RoundTripSameEdges ==
    \A g \in RoundTrips(nodes) :
        /\ ~g.raised
        /\ DOMAIN g.nodes = DOMAIN nodes
        /\ \A n \in DOMAIN nodes :
              /\ ToSet(g.nodes[n].inputs) = ToSet(nodes[n].inputs)
              /\ ToSet(g.nodes[n].outputs) = ToSet(nodes[n].outputs)

\* C15: after deserialize_pipeline every restored edge a -> b is backed by a
\* subscription: the subscription map of b has the key a.
C15_RestoredEdgesSubscribed ==
    \A g \in RoundTrips(nodes) :
        ~g.raised =>
            \A e \in Edges(g.nodes) :
                /\ e[2] \in DOMAIN g.nodes
                /\ e[1] \in DOMAIN g.nodes[e[2]].input_subscriptions

\* Number of places of the list s that hold x
Count(s, x) == Cardinality({ i \in 1..Len(s) : s[i] = x })

\* C18: subscribe_to_input(other) on a node returns false and changes
\* nothing when the node already has the key other.id or is of source kind;
\* otherwise it returns true and the subscription map gains exactly that key.
C18_SubscribeRefusedOrAdded ==
    \A t \in DOMAIN nodes, f \in DOMAIN nodes :
        LET after == subscribe_to_input(nodes, t, f)
            before_keys == DOMAIN nodes[t].input_subscriptions
        IN  IF f \in before_keys \/ nodes[t].node_type = "catchment"
            THEN /\ ~SubscribeOk(nodes, t, f)
                 /\ after = nodes
            ELSE /\ SubscribeOk(nodes, t, f)
                 /\ DOMAIN after[t].input_subscriptions = before_keys \cup {f}
                 /\ after[t].input_subscriptions[f] = "live"
                 /\ \A k \in before_keys :
                       after[t].input_subscriptions[k] =
                           nodes[t].input_subscriptions[k]
                 /\ after = [nodes EXCEPT ![t].input_subscriptions =
                                              after[t].input_subscriptions]

\* A node that holds a key, a source node and a node free to subscribe
C18_Witness ==
    \E t \in DOMAIN nodes, s \in DOMAIN nodes, f \in DOMAIN nodes :
        /\ f \in DOMAIN nodes[t].input_subscriptions
        /\ ~SubscribeOk(nodes, t, f)
        /\ nodes[s].node_type = "catchment"
        /\ ~SubscribeOk(nodes, s, f)
        /\ SubscribeOk(nodes, f, t)
        /\ subscribe_to_input(nodes, f, t) # nodes

\* C19: add_edge(a, b) when the edge a -> b exists (b in a.outputs, a in
\* b.inputs and b subscribed to a) has its subscription refused as a
\* duplicate and leaves the graph unchanged: a.outputs has b once, b.inputs
\* has a once and b has the one subscription keyed by a.
C19_DuplicateEdgeUnchanged ==
    \A a \in DOMAIN nodes, b \in DOMAIN nodes :
        (/\ Contains(nodes[a].outputs, b)
         /\ Contains(nodes[b].inputs, a)
         /\ a \in DOMAIN nodes[b].input_subscriptions)
        => LET after == add_edge(nodes, a, b)
           IN  /\ ~SubscribeOk(nodes, b, a)
               /\ after = nodes
               /\ Count(after[a].outputs, b) = 1
               /\ Count(after[b].inputs, a) = 1
               /\ a \in DOMAIN after[b].input_subscriptions

\* An edge x -> y with its subscription, on which add_edge is repeated
C19_Witness ==
    \E x \in DOMAIN nodes, y \in DOMAIN nodes :
        /\ x # y
        /\ probe.stage = "added" /\ probe.a = x /\ probe.b = y
        /\ nodes[x].outputs = <<y>>
        /\ nodes[y].inputs = <<x>>
        /\ DOMAIN nodes[y].input_subscriptions = {x}
        /\ add_edge(nodes, x, y) = nodes

\* C20: an operation that names an unregistered id changes nothing:
\* remove_node and remove_edge return, add_edge raises its lookup error
\* before it touches a list, would_create_cycle is false and
\* get_reachable_nodes is the empty set.
C20_UnregisteredIdChangesNothing ==
    \A u \in Ids \ DOMAIN nodes :
        /\ remove_node(nodes, u) = nodes
        /\ get_reachable_nodes(nodes, u) = {}
        /\ \A x \in Ids :
              /\ remove_edge(nodes, u, x) = nodes
              /\ remove_edge(nodes, x, u) = nodes
              /\ KeyError(nodes, u, x) /\ add_edge(nodes, u, x) = nodes
              /\ KeyError(nodes, x, u) /\ add_edge(nodes, x, u) = nodes
              /\ ~would_create_cycle(nodes, u, x)
              /\ ~would_create_cycle(nodes, x, u)

\* A registered node with an edge, next to an unregistered id
C20_Witness ==
    \E u \in Ids \ DOMAIN nodes, x \in DOMAIN nodes, y \in DOMAIN nodes :
        /\ x # y
        /\ Contains(nodes[x].outputs, y)
        /\ remove_edge(nodes, x, y) # nodes
        /\ remove_edge(nodes, x, u) = nodes
        /\ add_edge(nodes, u, y) = nodes
        /\ get_reachable_nodes(nodes, x) # {}
        /\ get_reachable_nodes(nodes, u) = {}

\* What can be observed of a node: subscription map, inputs, outputs and
\* the status of its output stream
Observable(ns, id) ==
    <<ns[id].input_subscriptions, ns[id].inputs, ns[id].outputs,
      ns[id].subject>>

\* C16: dispose() twice on a node, or unsubscribe_from_input(id) twice for
\* an id with no subscription, leaves the node (and every other node) in
\* the state one call leaves; the second call's error, if any, is caught.
C16_DisposeAndUnsubscribeIdempotent ==
    \A x \in DOMAIN nodes :
        LET once == dispose(nodes, x)
            twice == dispose(once, x)
        IN  /\ Observable(twice, x) = Observable(once, x)
            /\ twice = once
            /\ once[x].subject = "disposed"
            /\ once[x].input_subscriptions = NoSubscriptions
            /\ \A m \in Ids \ DOMAIN nodes[x].input_subscriptions :
                  LET u1 == unsubscribe_from_input(nodes, x, m)
                      u2 == unsubscribe_from_input(u1, x, m)
                  IN  u1 = nodes /\ u2 = u1

\* A disposed node, and a node with two subscriptions and a subscriber of
\* its own that is still to be disposed
C16_Witness ==
    \E x \in DOMAIN nodes, y \in DOMAIN nodes :
        /\ nodes[x].subject = "disposed"
        /\ dispose(nodes, x) = nodes
        /\ nodes[y].subject = "open"
        /\ Cardinality(DOMAIN nodes[y].input_subscriptions) = 2
        /\ Subscribers(nodes, y) # {}
        /\ dispose(nodes, y) # nodes
        /\ dispose(dispose(nodes, y), y) = dispose(nodes, y)

\* C17: once dispose() has run on a node, every later subscribe_to_input
\* on it returns false and creates no subscription.
C17_DisposedRejectsSubscribe ==
    \A t \in DOMAIN nodes, f \in DOMAIN nodes :
        (nodes[t].subject = "disposed" /\ nodes[f].subject = "open")
        => /\ ~SubscribeOk(nodes, t, f)
           /\ subscribe_to_input(nodes, t, f) = nodes

\* The list s without x, the other ids in their order
Without(s, x) ==
    LET Keep(y) == y # x
    IN  SelectSeq(s, Keep)

\* C23: remove_edge(a, b) with both nodes registered leaves b without a
\* subscription keyed by a, a absent from b.inputs and b absent from
\* a.outputs, and changes nothing else, also when the edge did not exist.
C23_RemoveEdgeFrame ==
    \A a \in DOMAIN nodes, b \in DOMAIN nodes :
        LET after == remove_edge(nodes, a, b)
        IN  /\ DOMAIN after = DOMAIN nodes
            /\ a \notin DOMAIN after[b].input_subscriptions
            /\ ~Contains(after[b].inputs, a)
            /\ ~Contains(after[a].outputs, b)
            /\ \A n \in DOMAIN nodes :
                  /\ after[n].inputs =
                        IF n = b THEN Without(nodes[n].inputs, a)
                                 ELSE nodes[n].inputs
                  /\ after[n].outputs =
                        IF n = a THEN Without(nodes[n].outputs, b)
                                 ELSE nodes[n].outputs
                  /\ after[n].input_subscriptions =
                        IF n = b THEN DictDel(nodes[n].input_subscriptions, a)
                                 ELSE nodes[n].input_subscriptions
                  /\ after[n].class = nodes[n].class
                  /\ after[n].node_type = nodes[n].node_type
                  /\ after[n].subject = nodes[n].subject

\* An edge x -> y next to other edges of x and y, and a pair without edge
C23_Witness ==
    \E x \in DOMAIN nodes, y \in DOMAIN nodes, z \in DOMAIN nodes :
        /\ Cardinality({x, y, z}) = 3
        /\ nodes[x].outputs = <<z, y>>
        /\ nodes[y].inputs = <<x, z>>
        /\ DOMAIN nodes[y].input_subscriptions = {x, z}
        /\ remove_edge(nodes, x, y) # nodes
        /\ ~Contains(nodes[y].outputs, x)
        /\ remove_edge(nodes, y, x) = nodes

C26_GuardedEdgesAcyclic ==
    /\ Acyclic(Edges(nodes))
    /\ topological_order(nodes) # {}

\* t holds a subscription to f whose on_completed is queued
Completing(t, f) ==
    /\ t \in DOMAIN nodes
    /\ f \in DOMAIN nodes[t].input_subscriptions
    /\ nodes[t].input_subscriptions[f] = "completing"

\* remove_node(x) leaves every other node registered with its output stream
\* open and with its subscribers
RemoveNodeDoesNotCascade ==
    \A x \in DOMAIN nodes :
        RemoveNode(x) =>
            \A y \in (DOMAIN nodes) \ {x} :
                /\ y \in DOMAIN nodes'
                /\ nodes'[y].subject = "open"
                /\ \A z \in (DOMAIN nodes) \ {x} :
                      y \in DOMAIN nodes[z].input_subscriptions =>
                          /\ y \in DOMAIN nodes'[z].input_subscriptions
                          /\ nodes'[z].input_subscriptions[y] =
                                nodes[z].input_subscriptions[y]

\* the delivery of x's completion to y drops y's subscription to x and
\* nothing else
CompletionDoesNotCascade ==
    \A y \in DOMAIN nodes, x \in Ids :
        DeliverCompletion(y, x) =>
            /\ DOMAIN nodes' = DOMAIN nodes
            /\ nodes'[y].subject = "open"
            /\ DOMAIN nodes'[y].input_subscriptions =
                   (DOMAIN nodes[y].input_subscriptions) \ {x}
            /\ \A z \in (DOMAIN nodes) \ {y} : nodes'[z] = nodes[z]

C28_OneGenerationTask ==
    Cardinality(ActiveTasks(source)) <= 1

\* C29: every settings operation that clears settings_changed sets it again
\* before it ends, also when it ends by raising: whenever the server thread
\* is in no operation, settings_changed is set.
C29_SettingsChangedSetAgain ==
    scope.server = "idle" => scope.settings_changed

\* C30: util_run_block dispatches a block only while running is false, and
\* every block_ready_callback, whatever its status, leaves running false.
C30_CallbackLeavesRunningFalse ==
    [][ /\ (scope.block # "dispatched" /\ scope'.block = "dispatched")
             => ~scope.running
        /\ \A statusCallback \in BlockStatus :
              BlockReady(statusCallback) => ~scope'.running ]_vars

\* C21: when a node's process_input fails on a value delivered by an
\* upstream subscription, the failure is emitted as an error on the node's
\* own output stream.
C21_FailureEmittedAsError ==
    flow.raised => flow.subject = "error"

\* C24: a value of a is passed to b.process_input only while b holds a
\* subscription to a, so after remove_edge(a, b) none is passed, those
\* emitted before the removal and not yet delivered included.
C24_OnlyAlongLiveSubscription ==
    [][ flow'.processed # flow.processed => flow.sub # 0 ]_vars

\* C25: b.process_input is invoked for a's values in the order in which a
\* emitted them, none twice.
C25_ProcessedInEmissionOrder ==
    \A i \in 1..Len(flow.processed), j \in 1..Len(flow.processed) :
        /\ flow.processed[i].v < flow.next
        /\ i < j => flow.processed[i].v < flow.processed[j].v

\* Three values processed by a PlotNode on another loop than a's, through
\* two subscriptions, a fourth one handed over and not yet run
C25_Witness ==
    /\ flow.node = "PlotNode"
    /\ flow.loop # ALoop
    /\ Len(flow.processed) >= 3
    /\ flow.processed[1].sub # flow.processed[3].sub
    /\ flow.handoff # <<>>

====
